---- MODULE Spec2Model ----
(***************************************************************************)
(* A model of the pkt-line tokenizer (PacketScanner, token.go) and of the  *)
(* three grammars built on it: ReceiveResponse and Request                 *)
(* (receiveresp.go) and UploadResponse (uploadresp.go).                    *)
(*                                                                         *)
(* A byte is a one-character string and a []byte or a Go string is a       *)
(* sequence of bytes.  A source (io.Reader) is a finite byte sequence      *)
(* followed by io.EOF or by an I/O error.                                  *)
(***************************************************************************)
EXTENDS Integers, Sequences, FiniteSets, TLC

VARIABLES
    kind,      \* which reader was constructed over the source
    input,     \* the bytes the source delivers
    srcErr,    \* how the source ends: "EOF" or "EIO"
    s,         \* the PacketScanner: err, curr, packFileMode and the bufio position
    r,         \* the parser built on it: state, err, curr
    ret,       \* what the last Scan call of the caller returned
    panicked,  \* a Go panic unwound the caller
    pkts,      \* packets the PacketScanner has returned so far
    chunks,    \* Chunk() (Packet() for a bare PacketScanner) after each Scan that returned true
    labels,    \* the branch of every chunk the parser has allocated
    phase,     \* 1: parsing the source; 2: parsing the re-encoded chunks
    first,     \* the chunks of phase 1, kept for the comparison in phase 2
    enc        \* a packet handed to EncodeToPktLine, and what the call gave

vars == <<kind, input, srcErr, s, r, ret, panicked, pkts, chunks, labels, phase, first, enc>>

(***************************************************************************)
(* Byte literals of the source.                                            *)
(***************************************************************************)

Lit0000 == <<"0", "0", "0", "0">>

Lit0001 == <<"0", "0", "0", "1">>

LitPACK == <<"P", "A", "C", "K">>

LitERR == <<"E", "R", "R", " ">>

LitUnpack == <<"u", "n", "p", "a", "c", "k", " ">>

LitOk == <<"o", "k", " ">>

LitNg == <<"n", "g", " ">>

LitShallow == <<"s", "h", "a", "l", "l", "o", "w", " ">>

LitUnshallow == <<"u", "n", "s", "h", "a", "l", "l", "o", "w", " ">>

LitACK == <<"A", "C", "K", " ">>

LitNAK == <<"N", "A", "K", "\n">>

LitCommand == <<"c", "o", "m", "m", "a", "n", "d", "=">>

LitNL == <<"\n">>

LitSP == <<" ">>

(***************************************************************************)
(* Bounds of the model.                                                    *)
(***************************************************************************)
\* The source is the concatenation of at most MaxItems wire items.
MaxItems == 3

(***************************************************************************)
(* Go library functions, as far as the source uses them.                   *)
(***************************************************************************)
\* bytes.HasPrefix / strings.HasPrefix
HasPrefix(b, p) == Len(b) >= Len(p) /\ SubSeq(b, 1, Len(p)) = p

\* strings.TrimSuffix
TrimSuffix(b, suf) ==
    IF Len(b) >= Len(suf) /\ SubSeq(b, Len(b) - Len(suf) + 1, Len(b)) = suf
    THEN SubSeq(b, 1, Len(b) - Len(suf))
    ELSE b

\* strings.TrimPrefix
TrimPrefix(b, p) == IF HasPrefix(b, p) THEN SubSeq(b, Len(p) + 1, Len(b)) ELSE b

\* strings.IndexByte(b, ' ') + 1, or 0 when there is no space
IndexSP(b) ==
    IF \E i \in 1..Len(b) : b[i] = " "
    THEN CHOOSE i \in 1..Len(b) : b[i] = " " /\ \A j \in 1..(i - 1) : b[j] # " "
    ELSE 0

\* strings.SplitN(b, " ", n) for n > 0: at most n fields, the last one unsplit
RECURSIVE SplitN(_, _)
SplitN(b, n) ==
    IF n <= 1 \/ IndexSP(b) = 0
    THEN <<b>>
    ELSE <<SubSeq(b, 1, IndexSP(b) - 1)>> \o SplitN(SubSeq(b, IndexSP(b) + 1, Len(b)), n - 1)

HexLower == <<"0", "1", "2", "3", "4", "5", "6", "7", "8", "9", "a", "b", "c", "d", "e", "f">>
HexUpper == <<"0", "1", "2", "3", "4", "5", "6", "7", "8", "9", "A", "B", "C", "D", "E", "F">>

IsHex(c) == \E i \in 1..16 : HexLower[i] = c \/ HexUpper[i] = c

HexVal(c) == (CHOOSE i \in 1..16 : HexLower[i] = c \/ HexUpper[i] = c) - 1

\* strconv.ParseUint(string(b4), 16, 32) of four bytes
ParseUint(b4) ==
    IF \A i \in 1..4 : IsHex(b4[i])
    THEN [ok |-> TRUE,
          val |-> 4096 * HexVal(b4[1]) + 256 * HexVal(b4[2]) + 16 * HexVal(b4[3]) + HexVal(b4[4])]
    ELSE [ok |-> FALSE, val |-> 0]

\* the hexadecimal digits of n, without padding
RECURSIVE HexDigitsOf(_, _)
HexDigitsOf(digits, n) ==
    IF n < 16 THEN <<digits[n + 1]>>
    ELSE HexDigitsOf(digits, n \div 16) \o <<digits[(n % 16) + 1]>>

\* fmt.Sprintf("%04x", n) and fmt.Sprintf("%04X", n): 4 is the least width, a
\* number of 65536 or more is printed with all its digits
Sprintf04x(n) ==
    IF n < 65536
    THEN <<HexLower[((n \div 4096) % 16) + 1], HexLower[((n \div 256) % 16) + 1],
           HexLower[((n \div 16) % 16) + 1], HexLower[(n % 16) + 1]>>
    ELSE HexDigitsOf(HexLower, n)

Sprintf04X(n) ==
    IF n < 65536
    THEN <<HexUpper[((n \div 4096) % 16) + 1], HexUpper[((n \div 256) % 16) + 1],
           HexUpper[((n \div 16) % 16) + 1], HexUpper[(n % 16) + 1]>>
    ELSE HexDigitsOf(HexUpper, n)

(***************************************************************************)
(* Errors and packets (token.go).                                          *)
(***************************************************************************)
NilErr == [kind |-> "nil", text |-> "", data |-> <<>>]

SyntaxError(text, data) == [kind |-> "SyntaxError", text |-> text, data |-> data]

ErrorPacket(msg) == [kind |-> "ErrorPacket", text |-> "", data |-> msg]

\* the *strconv.NumError that ParseUint returns
NumError(b4) == [kind |-> "NumError", text |-> "invalid syntax", data |-> b4]

\* the error of a failing Read of the source
IOError == [kind |-> "IOError", text |-> "EIO", data |-> <<>>]

NilPacket == [type |-> "nil", content |-> <<>>]
FlushPacket == [type |-> "Flush", content |-> <<>>]
DelimPacket == [type |-> "Delim", content |-> <<>>]
PackFileIndicatorPacket == [type |-> "PackFileIndicator", content |-> <<>>]
BytesPacket(b) == [type |-> "Bytes", content |-> b]
\* a chunk of the pack file returned as a BytesPacket
PackFilePacketAsBytes(b) == [type |-> "Bytes", content |-> b]

PackFilePacket(b) == [type |-> "PackFile", content |-> b]

\* an encoder either returns bytes or panics
Encoded(b) == [panic |-> FALSE, bytes |-> b]
EncodePanic == [panic |-> TRUE, bytes |-> <<>>]

MaxContent == 65531

BytesPacketEncodeToPktLine(b) ==
    IF Len(b) > MaxContent THEN EncodePanic ELSE Encoded(Sprintf04x(Len(b) + 4) \o b)

MaxErrorContent == 65535

\* token.go:68-75
ErrorPacketEncodeToPktLine(e) ==
    LET bs == LitERR \o e IN
    IF Len(bs) > MaxErrorContent THEN EncodePanic ELSE Encoded(Sprintf04X(Len(bs) + 4) \o bs)

FlushPacketEncodeToPktLine == Encoded(Lit0000)

DelimPacketEncodeToPktLine == Encoded(Lit0001)

(***************************************************************************)
(* PacketScanner (token.go): bufio.Scanner with packetSplitFunc, and Scan. *)
(***************************************************************************)
NewPacketScanner == [err |-> NilErr, curr |-> NilPacket, packFileMode |-> FALSE, pos |-> 0]

\* The bytes the source has not yet handed to a token.
Rest(sc) == SubSeq(input, sc.pos + 1, Len(input))

\* What the source reports when it has no more bytes; bufio.Scanner.Err()
\* turns io.EOF into nil.
ScannerErr == IF srcErr = "EOF" THEN NilErr ELSE IOError

\* The split function on the buffered bytes data.  more: (0, nil, nil), the
\* request for more data.
SplitMore == [more |-> TRUE, advance |-> 0, token |-> <<>>, err |-> NilErr]
SplitToken(data, n) == [more |-> FALSE, advance |-> n, token |-> SubSeq(data, 1, n), err |-> NilErr]

\* packetSplitFunc that reports a frame shorter than its header declares
packetSplitFuncStrict(packFileMode, data) ==
    IF packFileMode THEN SplitToken(data, Len(data))
    ELSE IF Len(data) < 4 THEN SplitMore
    ELSE IF HasPrefix(data, LitPACK) THEN SplitToken(data, 4)
    ELSE LET p == ParseUint(SubSeq(data, 1, 4)) IN
         IF ~p.ok THEN [more |-> FALSE, advance |-> 0, token |-> <<>>, err |-> NumError(SubSeq(data, 1, 4))]
         ELSE IF p.val = 0 \/ p.val = 1 THEN SplitToken(data, 4)
         ELSE IF Len(data) < p.val
         THEN [more |-> FALSE, advance |-> 0, token |-> <<>>, err |-> SyntaxError("early EOF", <<>>)]
         ELSE SplitToken(data, p.val)

packetSplitFunc(packFileMode, data) ==
    IF packFileMode THEN SplitToken(data, Len(data))
    ELSE IF Len(data) < 4 THEN SplitMore
    ELSE IF HasPrefix(data, LitPACK) THEN SplitToken(data, 4)
    ELSE LET p == ParseUint(SubSeq(data, 1, 4)) IN
         IF ~p.ok THEN [more |-> FALSE, advance |-> 0, token |-> <<>>, err |-> NumError(SubSeq(data, 1, 4))]
         ELSE IF p.val = 0 \/ p.val = 1 THEN SplitToken(data, 4)
         ELSE IF Len(data) < p.val THEN SplitMore
         ELSE SplitToken(data, p.val)

\* The sizes of the next raw token when n bytes are left: what one Read of the
\* source has put into the buffer.  The model lets the source deliver one byte
\* or everything.
ReadSizes(n) == {1, n}

\* bufio.Scanner.Scan under packetSplitFunc: the results it can have for the
\* PacketScanner sc.  In framed mode the scanner reads until the split function
\* finds a token, so the result is that of the split function on all the bytes
\* left; a request for more data at the end of the source ends the scan and
\* drops the buffer.  In raw mode the token is what is buffered, and at the end
\* of the source the split function returns an empty, non-nil token.
bufioScan(sc) ==
    IF sc.packFileMode
    THEN IF Rest(sc) = <<>>
         THEN {[ok |-> TRUE, token |-> <<>>, err |-> NilErr, pos |-> sc.pos]}
         ELSE {[ok |-> TRUE, token |-> packetSplitFunc(TRUE, SubSeq(Rest(sc), 1, n)).token,
                err |-> NilErr, pos |-> sc.pos + n] : n \in ReadSizes(Len(Rest(sc)))}
    ELSE LET sp == packetSplitFunc(FALSE, Rest(sc)) IN
         IF sp.more THEN {[ok |-> FALSE, token |-> <<>>, err |-> ScannerErr, pos |-> Len(input)]}
         ELSE IF sp.err # NilErr THEN {[ok |-> FALSE, token |-> <<>>, err |-> sp.err, pos |-> sc.pos]}
         ELSE {[ok |-> TRUE, token |-> sp.token, err |-> NilErr, pos |-> sc.pos + sp.advance]}

ScanResult(b, sc) == [ret |-> b, s |-> sc, panic |-> FALSE]
ScanPanic(sc) == [ret |-> FALSE, s |-> sc, panic |-> TRUE]

\* token.go:126: a scanner that has an error does not scan again
PacketScannerStopped(sc) == sc.err # NilErr

\* ErrorMessage that keeps the "ERR " prefix
ErrorMessageWithPrefix(bs) == SubSeq(bs, 5, Len(bs))

\* token.go:160-161: the message of a remote error
ErrorMessage(bs) == SubSeq(bs, 9, Len(bs))

\* token.go:134-165: the packet of the token bs; sc.pos is already behind the
\* token.  A token shorter than 8 bytes is sliced beyond its length: bs[4:8]
\* reads the bytes that follow the token in the buffer, which are the next
\* bytes of the source when the source has delivered them and zero bytes
\* otherwise (the sources of the model are shorter than the buffer, so its
\* capacity suffices and it holds no stale data); bs[8:] or bs[4:] then
\* panics when the token is too short for it.
ClassifyToken(sc, bs) ==
    IF sc.packFileMode
    THEN IF Len(bs) = 0 THEN {ScanResult(FALSE, sc)}
         ELSE {ScanResult(TRUE, [sc EXCEPT !.curr = PackFilePacket(bs)])}
    ELSE IF bs = Lit0000 THEN {ScanResult(TRUE, [sc EXCEPT !.curr = FlushPacket])}
    ELSE IF bs = Lit0001 THEN {ScanResult(TRUE, [sc EXCEPT !.curr = DelimPacket])}
    ELSE IF bs = LitPACK
         THEN {ScanResult(TRUE, [sc EXCEPT !.packFileMode = TRUE, !.curr = PackFileIndicatorPacket])}
    ELSE IF Len(bs) = 4
         THEN {ScanResult(FALSE, [sc EXCEPT !.err = SyntaxError("unknown special packet: ", bs)])}
    ELSE IF Len(bs) < 4 THEN {ScanPanic(sc)}
    ELSE IF Len(bs) < 8
         THEN {ScanResult(TRUE, [sc EXCEPT !.curr = BytesPacket(SubSeq(bs, 5, Len(bs)))])}
              \cup (IF HasPrefix(bs \o Rest(sc), SubSeq(bs, 1, 4) \o LitERR)
                    THEN {ScanPanic(sc)} ELSE {})
    ELSE IF SubSeq(bs, 5, 8) = LitERR
         THEN {ScanResult(FALSE, [sc EXCEPT !.err = ErrorPacket(ErrorMessage(bs))])}
    ELSE {ScanResult(TRUE, [sc EXCEPT !.curr = BytesPacket(SubSeq(bs, 5, Len(bs)))])}

\* PacketScanner.Scan: the set of its outcomes, each with the return value,
\* the scanner afterwards and whether the call panicked.
PacketScannerScan(sc) ==
    IF PacketScannerStopped(sc) THEN {ScanResult(FALSE, sc)}
    ELSE UNION {IF ~b.ok
                THEN {ScanResult(FALSE, [sc EXCEPT !.err = b.err, !.pos = b.pos])}
                ELSE ClassifyToken([sc EXCEPT !.pos = b.pos], b.token) : b \in bufioScan(sc)}

(***************************************************************************)
(* What one Scan call of a parser does: its return value, the parser and   *)
(* the PacketScanner afterwards, whether the PacketScanner returned a      *)
(* packet (tok), the branch that allocated a chunk ("none" when the call   *)
(* allocated none) and whether the call panicked.                          *)
(***************************************************************************)
Outcome(b, rr, sc, tok, label, panic) ==
    [ret |-> b, r |-> rr, s |-> sc, tok |-> tok, label |-> label, panic |-> panic]

\* the result of the switch over the parser state: return value, parser, branch
Parsed(b, rr, label) == [ret |-> b, r |-> rr, label |-> label, panic |-> FALSE]
ParsePanic(rr) == [ret |-> FALSE, r |-> rr, label |-> "none", panic |-> TRUE]

\* a nil *Chunk
NilChunk == [nil |-> TRUE]

EarlyEOF == SyntaxError("early EOF", <<>>)
Unexpected(pkt) == SyntaxError("unexpected packet: ", pkt.content)

(***************************************************************************)
(* ReceiveResponse (receiveresp.go).                                       *)
(***************************************************************************)
ReceiveResponseBegin == 0
ReceiveResponseScanResult == 1
ReceiveResponseEnd == 2

ReceiveResponseChunk ==
    [UnpackStatus |-> <<>>, RefUpdateStatus |-> <<>>, RefName |-> <<>>,
     RefUpdateFailMessage |-> <<>>, EndOfResponse |-> FALSE]

NewReceiveResponse == [state |-> ReceiveResponseBegin, err |-> NilErr, curr |-> NilChunk]

ReceiveResponseChunkEncodeToPktLine(c) ==
    IF c.UnpackStatus # <<>>
    THEN BytesPacketEncodeToPktLine(LitUnpack \o c.UnpackStatus \o LitNL)
    ELSE IF c.RefUpdateStatus # <<>>
    THEN IF c.RefUpdateFailMessage = <<>>
         THEN BytesPacketEncodeToPktLine(c.RefUpdateStatus \o LitSP \o c.RefName \o LitNL)
         ELSE BytesPacketEncodeToPktLine(c.RefUpdateStatus \o LitSP \o c.RefName \o LitSP
                                         \o c.RefUpdateFailMessage \o LitNL)
    ELSE IF c.EndOfResponse THEN FlushPacketEncodeToPktLine
    ELSE EncodePanic

\* ReceiveResponseStopped without the test of r.err
ReceiveResponseStoppedAtEndOnly(rr) == rr.state = ReceiveResponseEnd

\* receiveresp.go:90
ReceiveResponseStopped(rr) == rr.err # NilErr \/ rr.state = ReceiveResponseEnd

\* ReceiveResponseEOF that never reports an early EOF
ReceiveResponseEOFNeverEarly(rr, scErr) == scErr

\* receiveresp.go:94-97: r.err after the PacketScanner stopped with scErr
ReceiveResponseEOF(rr, scErr) ==
    IF scErr = NilErr /\ rr.state # ReceiveResponseBegin THEN EarlyEOF ELSE scErr

\* ReceiveResponseFlush that stays in ScanResult
ReceiveResponseFlushStays(rr) ==
    Parsed(TRUE, [rr EXCEPT !.curr = [ReceiveResponseChunk EXCEPT !.EndOfResponse = TRUE]],
           "EndOfResponse")

\* receiveresp.go:120-125
ReceiveResponseFlush(rr) ==
    Parsed(TRUE, [rr EXCEPT !.state = ReceiveResponseEnd,
                            !.curr = [ReceiveResponseChunk EXCEPT !.EndOfResponse = TRUE]],
           "EndOfResponse")

\* ReceiveResponseParse that splits an "ng " line into at most four fields
ReceiveResponseParseSplitFour(rr, pkt) ==
    IF rr.state = ReceiveResponseBegin
    THEN IF pkt.type # "Bytes" THEN Parsed(FALSE, [rr EXCEPT !.err = Unexpected(pkt)], "none")
         ELSE LET str == TrimSuffix(pkt.content, LitNL) IN
              IF ~HasPrefix(str, LitUnpack)
              THEN Parsed(FALSE, [rr EXCEPT !.err = SyntaxError("unexpected packet: ", str)], "none")
              ELSE Parsed(TRUE, [rr EXCEPT !.state = ReceiveResponseScanResult,
                                           !.curr = [ReceiveResponseChunk EXCEPT
                                                        !.UnpackStatus = SplitN(str, 2)[2]]],
                          "UnpackStatus")
    ELSE IF rr.state = ReceiveResponseScanResult
    THEN IF pkt.type = "Flush" THEN ReceiveResponseFlush(rr)
         ELSE IF pkt.type = "Bytes"
         THEN LET str == TrimSuffix(pkt.content, LitNL) IN
              IF HasPrefix(str, LitOk)
              THEN LET ss == SplitN(str, 2) IN
                   Parsed(TRUE, [rr EXCEPT !.curr = [ReceiveResponseChunk EXCEPT
                                                        !.RefUpdateStatus = ss[1],
                                                        !.RefName = ss[2]]],
                          "RefUpdate")
              ELSE IF HasPrefix(str, LitNg)
              THEN LET ss == SplitN(str, 4) IN
                   IF Len(ss) # 3
                   THEN Parsed(FALSE, [rr EXCEPT !.err = SyntaxError("cannot split into three: ", str)],
                               "none")
                   ELSE Parsed(TRUE, [rr EXCEPT !.curr = [ReceiveResponseChunk EXCEPT
                                                             !.RefUpdateStatus = ss[1],
                                                             !.RefName = ss[2],
                                                             !.RefUpdateFailMessage = ss[3]]],
                               "RefUpdate")
              ELSE Parsed(FALSE, [rr EXCEPT !.err = Unexpected(pkt)], "none")
         ELSE Parsed(FALSE, [rr EXCEPT !.err = Unexpected(pkt)], "none")
    ELSE ParsePanic(rr)

\* receiveresp.go:101-156
ReceiveResponseParse(rr, pkt) ==
    IF rr.state = ReceiveResponseBegin
    THEN IF pkt.type # "Bytes" THEN Parsed(FALSE, [rr EXCEPT !.err = Unexpected(pkt)], "none")
         ELSE LET str == TrimSuffix(pkt.content, LitNL) IN
              IF ~HasPrefix(str, LitUnpack)
              THEN Parsed(FALSE, [rr EXCEPT !.err = SyntaxError("unexpected packet: ", str)], "none")
              ELSE Parsed(TRUE, [rr EXCEPT !.state = ReceiveResponseScanResult,
                                           !.curr = [ReceiveResponseChunk EXCEPT
                                                        !.UnpackStatus = SplitN(str, 2)[2]]],
                          "UnpackStatus")
    ELSE IF rr.state = ReceiveResponseScanResult
    THEN IF pkt.type = "Flush" THEN ReceiveResponseFlush(rr)
         ELSE IF pkt.type = "Bytes"
         THEN LET str == TrimSuffix(pkt.content, LitNL) IN
              IF HasPrefix(str, LitOk)
              THEN LET ss == SplitN(str, 2) IN
                   Parsed(TRUE, [rr EXCEPT !.curr = [ReceiveResponseChunk EXCEPT
                                                        !.RefUpdateStatus = ss[1],
                                                        !.RefName = ss[2]]],
                          "RefUpdate")
              ELSE IF HasPrefix(str, LitNg)
              THEN LET ss == SplitN(str, 3) IN
                   IF Len(ss) # 3
                   THEN Parsed(FALSE, [rr EXCEPT !.err = SyntaxError("cannot split into three: ", str)],
                               "none")
                   ELSE Parsed(TRUE, [rr EXCEPT !.curr = [ReceiveResponseChunk EXCEPT
                                                             !.RefUpdateStatus = ss[1],
                                                             !.RefName = ss[2],
                                                             !.RefUpdateFailMessage = ss[3]]],
                               "RefUpdate")
              ELSE Parsed(FALSE, [rr EXCEPT !.err = Unexpected(pkt)], "none")
         ELSE Parsed(FALSE, [rr EXCEPT !.err = Unexpected(pkt)], "none")
    ELSE ParsePanic(rr)

\* ReceiveResponse.Scan
ReceiveResponseScan(rr, sc) ==
    IF ReceiveResponseStopped(rr) THEN {Outcome(FALSE, rr, sc, FALSE, "none", FALSE)}
    ELSE {IF t.panic THEN Outcome(FALSE, rr, t.s, FALSE, "none", TRUE)
          ELSE IF ~t.ret
          THEN Outcome(FALSE, [rr EXCEPT !.err = ReceiveResponseEOF(rr, t.s.err)], t.s, FALSE,
                       "none", FALSE)
          ELSE LET p == ReceiveResponseParse(rr, t.s.curr) IN
               Outcome(p.ret, p.r, t.s, TRUE, p.label, p.panic) : t \in PacketScannerScan(sc)}

(***************************************************************************)
(* Request, protocol v2 (receiveresp.go).                                  *)
(***************************************************************************)
RequestBegin == 0
RequestScanCapabilities == 1
RequestScanArguments == 2
RequestEnd == 3

RequestChunk ==
    [Command |-> <<>>, Capability |-> <<>>, EndCapability |-> FALSE, Argument |-> <<>>,
     EndArgument |-> FALSE, EndRequest |-> FALSE]

NewRequest == [state |-> RequestBegin, err |-> NilErr, curr |-> NilChunk]

RequestChunkEncodeToPktLine(c) ==
    IF c.Command # <<>> THEN BytesPacketEncodeToPktLine(LitCommand \o c.Command \o LitNL)
    ELSE IF c.Capability # <<>> THEN BytesPacketEncodeToPktLine(c.Capability \o LitNL)
    ELSE IF c.EndCapability THEN DelimPacketEncodeToPktLine
    ELSE IF Len(c.Argument) # 0 THEN BytesPacketEncodeToPktLine(c.Argument)
    ELSE IF c.EndArgument \/ c.EndRequest THEN FlushPacketEncodeToPktLine
    ELSE EncodePanic

\* receiveresp.go:256
RequestStopped(rr) == rr.err # NilErr \/ rr.state = RequestEnd

\* receiveresp.go:260-263: r.err after the PacketScanner stopped with scErr
RequestEOF(rr, scErr) ==
    IF scErr = NilErr /\ rr.state # RequestBegin THEN EarlyEOF ELSE scErr

\* receiveresp.go:269-290
RequestParseBegin(rr, pkt) ==
    IF pkt.type = "Flush"
    THEN Parsed(TRUE, [rr EXCEPT !.state = RequestEnd,
                                 !.curr = [RequestChunk EXCEPT !.EndRequest = TRUE]],
                "EndRequest")
    ELSE IF pkt.type = "Bytes"
    THEN IF ~HasPrefix(pkt.content, LitCommand)
         THEN Parsed(FALSE, [rr EXCEPT !.err = Unexpected(pkt)], "none")
         ELSE Parsed(TRUE, [rr EXCEPT !.state = RequestScanCapabilities,
                                      !.curr = [RequestChunk EXCEPT !.Command =
                                                   TrimSuffix(TrimPrefix(pkt.content, LitCommand), LitNL)]],
                     "Command")
    ELSE Parsed(FALSE, [rr EXCEPT !.err = Unexpected(pkt)], "none")

\* receiveresp.go:291-307
RequestParseCapabilities(rr, pkt) ==
    IF pkt.type = "Delim"
    THEN Parsed(TRUE, [rr EXCEPT !.state = RequestScanArguments,
                                 !.curr = [RequestChunk EXCEPT !.EndCapability = TRUE]],
                "EndCapabilities")
    ELSE IF pkt.type = "Bytes"
    THEN Parsed(TRUE, [rr EXCEPT !.curr = [RequestChunk EXCEPT !.Capability =
                                              TrimSuffix(pkt.content, LitNL)]],
                "Capability")
    ELSE Parsed(FALSE, [rr EXCEPT !.err = Unexpected(pkt)], "none")

\* RequestParseArguments that ends the request stream at the flush
RequestParseArgumentsEnds(rr, pkt) ==
    IF pkt.type = "Flush"
    THEN Parsed(TRUE, [rr EXCEPT !.state = RequestEnd,
                                 !.curr = [RequestChunk EXCEPT !.EndArgument = TRUE]],
                "EndArguments")
    ELSE IF pkt.type = "Bytes"
    THEN Parsed(TRUE, [rr EXCEPT !.curr = [RequestChunk EXCEPT !.Argument = pkt.content]],
                "Argument")
    ELSE Parsed(FALSE, [rr EXCEPT !.err = Unexpected(pkt)], "none")

\* receiveresp.go:308-324
RequestParseArguments(rr, pkt) ==
    IF pkt.type = "Flush"
    THEN Parsed(TRUE, [rr EXCEPT !.state = RequestBegin,
                                 !.curr = [RequestChunk EXCEPT !.EndArgument = TRUE]],
                "EndArguments")
    ELSE IF pkt.type = "Bytes"
    THEN Parsed(TRUE, [rr EXCEPT !.curr = [RequestChunk EXCEPT !.Argument = pkt.content]],
                "Argument")
    ELSE Parsed(FALSE, [rr EXCEPT !.err = Unexpected(pkt)], "none")

\* receiveresp.go:268-326
RequestParse(rr, pkt) ==
    IF rr.state = RequestBegin THEN RequestParseBegin(rr, pkt)
    ELSE IF rr.state = RequestScanCapabilities THEN RequestParseCapabilities(rr, pkt)
    ELSE IF rr.state = RequestScanArguments THEN RequestParseArguments(rr, pkt)
    ELSE ParsePanic(rr)

\* Request.Scan
RequestScan(rr, sc) ==
    IF RequestStopped(rr) THEN {Outcome(FALSE, rr, sc, FALSE, "none", FALSE)}
    ELSE {IF t.panic THEN Outcome(FALSE, rr, t.s, FALSE, "none", TRUE)
          ELSE IF ~t.ret
          THEN Outcome(FALSE, [rr EXCEPT !.err = RequestEOF(rr, t.s.err)], t.s, FALSE, "none", FALSE)
          ELSE LET p == RequestParse(rr, t.s.curr) IN
               Outcome(p.ret, p.r, t.s, TRUE, p.label, p.panic) : t \in PacketScannerScan(sc)}

(***************************************************************************)
(* UploadResponse (uploadresp.go).                                         *)
(***************************************************************************)
UploadResponseBegin == 0
UploadResponseScanShallows == 1
UploadResponseScanUnshallows == 2
UploadResponseBeginAcknowledgements == 3
UploadResponseScanAcknowledgements == 4
UploadResponseScanPacks == 5
UploadResponseEnd == 6

\* The field PackRepo is never set nor read and is left out.
UploadResponseChunk ==
    [ShallowObjectID |-> <<>>, UnshallowObjectID |-> <<>>, EndOfShallows |-> FALSE,
     AckObjectID |-> <<>>, AckDetail |-> <<>>, Nak |-> FALSE, PackStream |-> <<>>,
     EndOfRequest |-> FALSE]

NewUploadResponse == [state |-> UploadResponseBegin, err |-> NilErr, curr |-> NilChunk]

UploadResponseChunkEncodeToPktLine(c) ==
    IF c.ShallowObjectID # <<>>
    THEN BytesPacketEncodeToPktLine(LitShallow \o c.ShallowObjectID \o LitNL)
    ELSE IF c.UnshallowObjectID # <<>>
    THEN BytesPacketEncodeToPktLine(LitUnshallow \o c.UnshallowObjectID \o LitNL)
    ELSE IF c.EndOfShallows THEN FlushPacketEncodeToPktLine
    ELSE IF c.AckObjectID # <<>>
    THEN IF c.AckDetail # <<>>
         THEN BytesPacketEncodeToPktLine(LitACK \o c.AckObjectID \o LitSP \o c.AckDetail \o LitNL)
         ELSE BytesPacketEncodeToPktLine(LitACK \o c.AckObjectID \o LitNL)
    ELSE IF c.Nak THEN BytesPacketEncodeToPktLine(LitNAK)
    ELSE IF Len(c.PackStream) # 0 THEN BytesPacketEncodeToPktLine(c.PackStream)
    ELSE IF c.EndOfRequest THEN FlushPacketEncodeToPktLine
    ELSE EncodePanic

\* uploadresp.go:111
UploadResponseStopped(rr) == rr.err # NilErr \/ rr.state = UploadResponseEnd

\* UploadResponseEOF with the rule of the other two parsers: clean in Begin only
UploadResponseEOFLikeReceive(rr, scErr) ==
    IF scErr = NilErr
    THEN IF rr.state = UploadResponseBegin THEN rr.err ELSE EarlyEOF
    ELSE rr.err

\* uploadresp.go:115-121: r.err after the PacketScanner stopped with scErr
UploadResponseEOF(rr, scErr) ==
    IF scErr = NilErr
    THEN IF rr.state \in {UploadResponseBeginAcknowledgements, UploadResponseScanPacks}
         THEN rr.err
         ELSE EarlyEOF
    ELSE rr.err

\* A case of the switch that ends in fallthrough.
Fallthrough == [fall |-> TRUE, ret |-> FALSE, r |-> NewUploadResponse, label |-> "none", panic |-> FALSE]
Matched(b, rr, label) == [fall |-> FALSE, ret |-> b, r |-> rr, label |-> label, panic |-> FALSE]

\* uploadresp.go:127-142
UploadResponseShallows(rr, pkt) ==
    IF pkt.type = "Bytes" /\ HasPrefix(pkt.content, LitShallow)
    THEN LET ss == SplitN(TrimSuffix(pkt.content, LitNL), 2) IN
         IF Len(ss) < 2
         THEN Matched(FALSE, [rr EXCEPT !.err = SyntaxError("cannot split shallow: ", pkt.content)],
                      "none")
         ELSE Matched(TRUE, [rr EXCEPT !.state = UploadResponseScanShallows,
                                       !.curr = [UploadResponseChunk EXCEPT !.ShallowObjectID = ss[2]]],
                      "Shallow")
    ELSE Fallthrough

\* UploadResponseUnshallows whose flush branch allocates no chunk
UploadResponseUnshallowsFlushNoChunk(rr, pkt) ==
    IF pkt.type = "Bytes" /\ HasPrefix(pkt.content, LitUnshallow)
    THEN LET ss == SplitN(TrimSuffix(pkt.content, LitNL), 2) IN
         IF Len(ss) < 2
         THEN Matched(FALSE, [rr EXCEPT !.err = SyntaxError("cannot split unshallow: ", pkt.content)],
                      "none")
         ELSE Matched(TRUE, [rr EXCEPT !.state = UploadResponseScanUnshallows,
                                       !.curr = [UploadResponseChunk EXCEPT !.UnshallowObjectID = ss[2]]],
                      "Unshallow")
    ELSE IF pkt.type = "Flush"
    THEN Matched(TRUE, [rr EXCEPT !.state = UploadResponseBeginAcknowledgements], "none")
    ELSE Fallthrough

\* uploadresp.go:143-165
UploadResponseUnshallows(rr, pkt) ==
    IF pkt.type = "Bytes" /\ HasPrefix(pkt.content, LitUnshallow)
    THEN LET ss == SplitN(TrimSuffix(pkt.content, LitNL), 2) IN
         IF Len(ss) < 2
         THEN Matched(FALSE, [rr EXCEPT !.err = SyntaxError("cannot split unshallow: ", pkt.content)],
                      "none")
         ELSE Matched(TRUE, [rr EXCEPT !.state = UploadResponseScanUnshallows,
                                       !.curr = [UploadResponseChunk EXCEPT !.UnshallowObjectID = ss[2]]],
                      "Unshallow")
    ELSE IF pkt.type = "Flush"
    THEN Matched(TRUE, [rr EXCEPT !.state = UploadResponseBeginAcknowledgements,
                                  !.curr = [UploadResponseChunk EXCEPT !.EndOfShallows = TRUE]],
                 "EndOfShallows")
    ELSE Fallthrough

\* UploadResponseNak that stays in the acknowledgement section
UploadResponseNakStays(rr) ==
    Matched(TRUE, [rr EXCEPT !.curr = [UploadResponseChunk EXCEPT !.Nak = TRUE]], "Nak")

\* uploadresp.go:185-191
UploadResponseNak(rr) ==
    Matched(TRUE, [rr EXCEPT !.state = UploadResponseScanPacks,
                             !.curr = [UploadResponseChunk EXCEPT !.Nak = TRUE]],
            "Nak")

\* UploadResponseAcknowledgements without the check of the Begin state
UploadResponseAcknowledgementsOpen(rr, pkt) ==
    IF pkt.type = "Bytes" /\ HasPrefix(pkt.content, LitACK)
    THEN LET ss == SplitN(TrimSuffix(pkt.content, LitNL), 3) IN
         IF Len(ss) < 2
         THEN Matched(FALSE, [rr EXCEPT !.err = SyntaxError("cannot split ACK: ", pkt.content)], "none")
         ELSE Matched(TRUE, [rr EXCEPT !.state = UploadResponseScanAcknowledgements,
                                       !.curr = [UploadResponseChunk EXCEPT
                                                    !.AckObjectID = ss[2],
                                                    !.AckDetail = IF Len(ss) = 3 THEN ss[3] ELSE <<>>]],
                      "Ack")
    ELSE IF pkt.type = "Bytes" /\ pkt.content = LitNAK THEN UploadResponseNak(rr)
    ELSE Fallthrough

\* uploadresp.go:166-197
UploadResponseAcknowledgements(rr, pkt) ==
    IF pkt.type = "Bytes" /\ HasPrefix(pkt.content, LitACK)
    THEN LET ss == SplitN(TrimSuffix(pkt.content, LitNL), 3) IN
         IF Len(ss) < 2
         THEN Matched(FALSE, [rr EXCEPT !.err = SyntaxError("cannot split ACK: ", pkt.content)], "none")
         ELSE Matched(TRUE, [rr EXCEPT !.state = UploadResponseScanAcknowledgements,
                                       !.curr = [UploadResponseChunk EXCEPT
                                                    !.AckObjectID = ss[2],
                                                    !.AckDetail = IF Len(ss) = 3 THEN ss[3] ELSE <<>>]],
                      "Ack")
    ELSE IF pkt.type = "Bytes" /\ pkt.content = LitNAK THEN UploadResponseNak(rr)
    ELSE IF rr.state = UploadResponseBegin
    THEN Matched(FALSE, [rr EXCEPT !.err = Unexpected(pkt)], "none")
    ELSE Fallthrough

\* uploadresp.go:218-220: the pack file indicator sets the state and returns
\* true; r.curr keeps the chunk of an earlier call.
UploadResponsePackFileIndicator(rr) ==
    Matched(TRUE, [rr EXCEPT !.state = UploadResponseScanPacks], "none")

\* UploadResponsePacks that rejects the pack file indicator
UploadResponsePacksNoIndicator(rr, pkt) ==
    IF pkt.type = "Flush"
    THEN Matched(TRUE, [rr EXCEPT !.state = UploadResponseEnd,
                                  !.curr = [UploadResponseChunk EXCEPT !.EndOfRequest = TRUE]],
                 "EndOfRequest")
    ELSE IF pkt.type = "Bytes" \/ pkt.type = "PackFile"
    THEN Matched(TRUE, [rr EXCEPT !.state = UploadResponseScanPacks,
                                  !.curr = [UploadResponseChunk EXCEPT !.PackStream = pkt.content]],
                 "PackStreamBytes")
    ELSE Matched(FALSE, [rr EXCEPT !.err = Unexpected(pkt)], "none")

\* uploadresp.go:198-225
UploadResponsePacks(rr, pkt) ==
    IF pkt.type = "Flush"
    THEN Matched(TRUE, [rr EXCEPT !.state = UploadResponseEnd,
                                  !.curr = [UploadResponseChunk EXCEPT !.EndOfRequest = TRUE]],
                 "EndOfRequest")
    ELSE IF pkt.type = "Bytes" \/ pkt.type = "PackFile"
    THEN Matched(TRUE, [rr EXCEPT !.state = UploadResponseScanPacks,
                                  !.curr = [UploadResponseChunk EXCEPT !.PackStream = pkt.content]],
                 "PackStreamBytes")
    ELSE IF pkt.type = "PackFileIndicator" THEN UploadResponsePackFileIndicator(rr)
    ELSE Matched(FALSE, [rr EXCEPT !.err = Unexpected(pkt)], "none")

\* UploadResponseParse that tries the shallow section in every state
UploadResponseParseFromShallows(rr, pkt) ==
    LET c1 == UploadResponseShallows(rr, pkt)
        c2 == IF ~c1.fall THEN c1
              ELSE IF rr.state \in {UploadResponseBegin, UploadResponseScanShallows,
                                    UploadResponseScanUnshallows}
              THEN UploadResponseUnshallows(rr, pkt) ELSE Fallthrough
        c3 == IF ~c2.fall THEN c2
              ELSE IF rr.state \in {UploadResponseBegin, UploadResponseScanShallows,
                                    UploadResponseScanUnshallows,
                                    UploadResponseBeginAcknowledgements,
                                    UploadResponseScanAcknowledgements}
              THEN UploadResponseAcknowledgements(rr, pkt) ELSE Fallthrough
        c4 == IF ~c3.fall THEN c3
              ELSE IF rr.state # UploadResponseEnd
              THEN UploadResponsePacks(rr, pkt) ELSE Fallthrough
    IN IF c4.fall THEN ParsePanic(rr) ELSE Parsed(c4.ret, c4.r, c4.label)

\* uploadresp.go:126-226: the switch enters at the case of the state and falls
\* through the later cases until one returns.
UploadResponseParse(rr, pkt) ==
    LET c1 == IF rr.state \in {UploadResponseBegin, UploadResponseScanShallows}
              THEN UploadResponseShallows(rr, pkt) ELSE Fallthrough
        c2 == IF ~c1.fall THEN c1
              ELSE IF rr.state \in {UploadResponseBegin, UploadResponseScanShallows,
                                    UploadResponseScanUnshallows}
              THEN UploadResponseUnshallows(rr, pkt) ELSE Fallthrough
        c3 == IF ~c2.fall THEN c2
              ELSE IF rr.state \in {UploadResponseBegin, UploadResponseScanShallows,
                                    UploadResponseScanUnshallows,
                                    UploadResponseBeginAcknowledgements,
                                    UploadResponseScanAcknowledgements}
              THEN UploadResponseAcknowledgements(rr, pkt) ELSE Fallthrough
        c4 == IF ~c3.fall THEN c3
              ELSE IF rr.state # UploadResponseEnd
              THEN UploadResponsePacks(rr, pkt) ELSE Fallthrough
    IN IF c4.fall THEN ParsePanic(rr) ELSE Parsed(c4.ret, c4.r, c4.label)

\* UploadResponse.Scan
UploadResponseScan(rr, sc) ==
    IF UploadResponseStopped(rr) THEN {Outcome(FALSE, rr, sc, FALSE, "none", FALSE)}
    ELSE {IF t.panic THEN Outcome(FALSE, rr, t.s, FALSE, "none", TRUE)
          ELSE IF ~t.ret
          THEN Outcome(FALSE, [rr EXCEPT !.err = UploadResponseEOF(rr, t.s.err)], t.s, FALSE,
                       "none", FALSE)
          ELSE LET p == UploadResponseParse(rr, t.s.curr) IN
               Outcome(p.ret, p.r, t.s, TRUE, p.label, p.panic) : t \in PacketScannerScan(sc)}

(***************************************************************************)
(* The sources of the model: concatenations of at most MaxItems wire items *)
(* of the reader's protocol, well-formed and malformed ones.               *)
(***************************************************************************)
WireFlush == <<"0", "0", "0", "0">>
WireDelim == <<"0", "0", "0", "1">>
WirePACK == <<"P", "A", "C", "K">>
WireERR == <<"0", "0", "0", "9", "E", "R", "R", " ", "x">>
WireBadHex == <<"0", "0", "0", "g">>
WireTruncated == <<"0", "0", "0", "6", "a">>

WireBytes == <<"0", "0", "0", "6", "a", "b">>
WireUpperERR == <<"0", "0", "0", "A", "E", "R", "R", " ", "x", "\n">>
WireEmpty == <<"0", "0", "0", "4">>
WireLen2 == <<"0", "0", "0", "2">>
WireShortERR == <<"0", "0", "0", "5", "E", "R", "R", " ">>

WireUnpack == <<"0", "0", "0", "d", "u", "n", "p", "a", "c", "k", " ", "o", "\n">>
WireUnpackEmpty == <<"0", "0", "0", "c", "u", "n", "p", "a", "c", "k", " ", "\n">>
WireOk == <<"0", "0", "0", "9", "o", "k", " ", "r", "\n">>
WireNg == <<"0", "0", "0", "b", "n", "g", " ", "r", " ", "m", "\n">>
WireNgShort == <<"0", "0", "0", "9", "n", "g", " ", "r", "\n">>
WireNgEmptyMsg == <<"0", "0", "0", "a", "n", "g", " ", "r", " ", "\n">>
WireNgSpaces == <<"0", "0", "0", "d", "n", "g", " ", "r", " ", "m", " ", "n", "\n">>
WireOkSpaces == <<"0", "0", "0", "b", "o", "k", " ", "r", " ", "q", "\n">>

WireCommand == <<"0", "0", "0", "e", "c", "o", "m", "m", "a", "n", "d", "=", "c", "\n">>
WireCommandEmpty == <<"0", "0", "0", "d", "c", "o", "m", "m", "a", "n", "d", "=", "\n">>
WireLine == <<"0", "0", "0", "6", "a", "\n">>
\* a complete request: command, one capability, delim, one argument, flush
WireRequest == <<"0", "0", "0", "e", "c", "o", "m", "m", "a", "n", "d", "=", "c", "\n", "0", "0", "0", "6", "a", "\n", "0", "0", "0", "1", "0", "0", "0", "6", "a", "\n", "0", "0", "0", "0">>
WireNoNL == <<"0", "0", "0", "5", "a">>

WireShallow == <<"0", "0", "0", "e", "s", "h", "a", "l", "l", "o", "w", " ", "a", "\n">>
WireUnshallow == <<"0", "0", "1", "0", "u", "n", "s", "h", "a", "l", "l", "o", "w", " ", "a", "\n">>
WireAck == <<"0", "0", "0", "a", "A", "C", "K", " ", "a", "\n">>
WireAckDetail == <<"0", "0", "0", "c", "A", "C", "K", " ", "a", " ", "d", "\n">>
WireNak == <<"0", "0", "0", "8", "N", "A", "K", "\n">>
WirePackData == <<"0", "0", "0", "5", "x">>

CommonItems == {WireFlush, WireDelim, WirePACK, WireERR, WireBadHex, WireTruncated}

Kinds == {"PacketScanner", "ReceiveResponse", "Request", "UploadResponse"}

Items(k) ==
    CommonItems \cup
    IF k = "PacketScanner" THEN {WireBytes, WireUpperERR, WireEmpty, WireLen2, WireShortERR}
    ELSE IF k = "ReceiveResponse" THEN {WireUnpack, WireUnpackEmpty, WireOk, WireNg, WireNgShort, WireNgEmptyMsg,
                                        WireNgSpaces, WireOkSpaces}
    ELSE IF k = "Request" THEN {WireCommand, WireCommandEmpty, WireLine, WireNoNL, WireRequest}
    ELSE {WireShallow, WireUnshallow, WireAck, WireAckDetail, WireNak, WirePackData}

RECURSIVE Concat(_)
Concat(ss) == IF ss = <<>> THEN <<>> ELSE Head(ss) \o Concat(Tail(ss))

Sources(k) == {Concat(ss) : ss \in UNION {[1..n -> Items(k)] : n \in 0..MaxItems}}

\* the r of a source read with a bare PacketScanner
NoParser == [state |-> 0, err |-> NilErr, curr |-> NilChunk]

NewParser(k) ==
    IF k = "ReceiveResponse" THEN NewReceiveResponse
    ELSE IF k = "Request" THEN NewRequest
    ELSE IF k = "UploadResponse" THEN NewUploadResponse
    ELSE NoParser

\* no packet has been handed to an encoder
NoEncode == [type |-> "none", len |-> 0, done |-> FALSE, panic |-> FALSE, header |-> <<>>, total |-> 0]

Init ==
    /\ kind \in Kinds
    /\ input \in Sources(kind)
    /\ srcErr \in {"EOF", "EIO"}
    /\ s = NewPacketScanner
    /\ r = NewParser(kind)
    /\ ret = "none"
    /\ panicked = FALSE
    /\ pkts = <<>>
    /\ chunks = <<>>
    /\ labels = <<>>
    /\ phase = 1
    /\ first = <<>>
    /\ enc = NoEncode

Returned(b) == IF b THEN "true" ELSE "false"

\* The caller calls Scan of its parser once and, when Scan returned true,
\* reads Chunk().
Call(o) ==
    /\ r' = o.r
    /\ s' = o.s
    /\ ret' = IF o.panic THEN "panic" ELSE Returned(o.ret)
    /\ panicked' = o.panic
    /\ pkts' = IF o.tok THEN Append(pkts, o.s.curr) ELSE pkts
    /\ chunks' = IF o.ret THEN Append(chunks, o.r.curr) ELSE chunks
    /\ labels' = IF o.label # "none" THEN Append(labels, o.label) ELSE labels
    /\ UNCHANGED <<kind, input, srcErr, phase, first, enc>>

\* The caller of a bare PacketScanner calls Scan and reads Packet().
PacketScannerStep ==
    /\ kind = "PacketScanner"
    /\ ~panicked
    /\ \E t \in PacketScannerScan(s) :
          /\ s' = t.s
          /\ ret' = IF t.panic THEN "panic" ELSE Returned(t.ret)
          /\ panicked' = t.panic
          /\ pkts' = IF t.ret THEN Append(pkts, t.s.curr) ELSE pkts
          /\ chunks' = IF t.ret THEN Append(chunks, t.s.curr) ELSE chunks
    /\ UNCHANGED <<kind, input, srcErr, r, labels, phase, first, enc>>

ReceiveResponseStep ==
    /\ kind = "ReceiveResponse"
    /\ ~panicked
    /\ \E o \in ReceiveResponseScan(r, s) : Call(o)

RequestStep ==
    /\ kind = "Request"
    /\ ~panicked
    /\ \E o \in RequestScan(r, s) : Call(o)

UploadResponseStep ==
    /\ kind = "UploadResponse"
    /\ ~panicked
    /\ \E o \in UploadResponseScan(r, s) : Call(o)

\* EncodeToPktLine of the chunk c of a parser of kind k; a nil chunk panics.
EncodeToPktLine(k, c) ==
    IF c = NilChunk THEN EncodePanic
    ELSE IF k = "ReceiveResponse" THEN ReceiveResponseChunkEncodeToPktLine(c)
    ELSE IF k = "Request" THEN RequestChunkEncodeToPktLine(c)
    ELSE UploadResponseChunkEncodeToPktLine(c)

\* the chunks cs written one after the other
RECURSIVE EncodeAll(_, _)
EncodeAll(k, cs) ==
    IF cs = <<>> THEN Encoded(<<>>)
    ELSE LET h == EncodeToPktLine(k, Head(cs))
             t == EncodeAll(k, Tail(cs))
         IN IF h.panic \/ t.panic THEN EncodePanic ELSE Encoded(h.bytes \o t.bytes)

\* After a parse that ended with no error, neither of the parser nor of its
\* PacketScanner, the caller encodes the chunks it has read, in order, and
\* constructs a new parser of the same kind over the bytes.
Reencode ==
    /\ kind # "PacketScanner"
    /\ phase = 1
    /\ ~panicked
    /\ ret = "false"
    /\ r.err = NilErr
    /\ s.err = NilErr
    /\ phase' = 2
    /\ first' = chunks
    /\ LET e == EncodeAll(kind, chunks) IN
          IF e.panic
          THEN /\ panicked' = TRUE
               /\ ret' = "panic"
               /\ UNCHANGED <<input, srcErr, s, r, pkts, chunks, labels>>
          ELSE /\ panicked' = FALSE
               /\ ret' = "none"
               /\ input' = e.bytes
               /\ srcErr' = "EOF"
               /\ s' = NewPacketScanner
               /\ r' = NewParser(kind)
               /\ pkts' = <<>>
               /\ chunks' = <<>>
               /\ labels' = <<>>
    /\ UNCHANGED <<kind, enc>>

Next ==
    \/ PacketScannerStep
    \/ ReceiveResponseStep
    \/ RequestStep
    \/ UploadResponseStep
    \/ Reencode

Spec == Init /\ [][Next]_vars

(***************************************************************************)
(* The encoders of BytesPacket and ErrorPacket (token.go) on contents of   *)
(* given lengths: short ones, and the ones around the largest content a    *)
(* 4-digit header can announce.                                            *)
(***************************************************************************)
\* contents of 0..EncodeSmall bytes
EncodeSmall == 40
\* contents of MaxContent - EncodeWindow .. MaxContent + EncodeWindow bytes
EncodeWindow == 10

EncodeLengths == (0..EncodeSmall) \cup ((MaxContent - EncodeWindow)..(MaxContent + EncodeWindow))

\* a content of n bytes
Content(n) == [i \in 1..n |-> "a"]

InitEncode ==
    /\ kind = "Encoder"
    /\ enc \in {[NoEncode EXCEPT !.type = t, !.len = n] : t \in {"Bytes", "Error"}, n \in EncodeLengths}
    /\ input = <<>>
    /\ srcErr = "EOF"
    /\ s = NewPacketScanner
    /\ r = NoParser
    /\ ret = "none"
    /\ panicked = FALSE
    /\ pkts = <<>>
    /\ chunks = <<>>
    /\ labels = <<>>
    /\ phase = 1
    /\ first = <<>>

\* what the caller sees of the call: the panic, or the first four bytes and
\* the length of the bytes returned
Encoding(e) ==
    [enc EXCEPT !.done = TRUE,
                !.panic = e.panic,
                !.header = IF e.panic THEN <<>> ELSE SubSeq(e.bytes, 1, 4),
                !.total = Len(e.bytes)]

EncodeBytesStep ==
    /\ kind = "Encoder"
    /\ enc.type = "Bytes"
    /\ ~enc.done
    /\ enc' = Encoding(BytesPacketEncodeToPktLine(Content(enc.len)))
    /\ panicked' = enc'.panic
    /\ UNCHANGED <<kind, input, srcErr, s, r, ret, pkts, chunks, labels, phase, first>>

EncodeErrorStep ==
    /\ kind = "Encoder"
    /\ enc.type = "Error"
    /\ ~enc.done
    /\ enc' = Encoding(ErrorPacketEncodeToPktLine(Content(enc.len)))
    /\ panicked' = enc'.panic
    /\ UNCHANGED <<kind, input, srcErr, s, r, ret, pkts, chunks, labels, phase, first>>

NextEncode ==
    \/ EncodeBytesStep
    \/ EncodeErrorStep

SpecEncode == InitEncode /\ [][NextEncode]_vars

(***************************************************************************)
(* Properties.                                                             *)
(***************************************************************************)
IsParser == kind # "PacketScanner"

\* the caller's step is a Scan call (not the construction of a new parser)
ScanCall == phase' = phase

EndState ==
    IF kind = "ReceiveResponse" THEN ReceiveResponseEnd
    ELSE IF kind = "Request" THEN RequestEnd
    ELSE UploadResponseEnd

\* C1: for each of the three parsers, when the PacketScanner has stopped with
\* an error, Scan has returned false and Err() is that error.
C1_ScannerErrorReported ==
    (IsParser /\ s.err # NilErr) => (ret = "false" /\ r.err = s.err)

\* the position of a chunk of UploadResponse in the ordering of a response
UploadRank(label) ==
    CASE label = "Shallow" -> 1
      [] label = "Unshallow" -> 2
      [] label = "EndOfShallows" -> 3
      [] label = "Ack" -> 4
      [] label = "Nak" -> 5
      [] label = "PackStreamBytes" -> 6
      [] label = "EndOfRequest" -> 7

UploadOrdered(ls) ==
    /\ \A i \in 1..Len(ls) : \A j \in 1..Len(ls) :
          i < j => /\ UploadRank(ls[i]) <= UploadRank(ls[j])
                   /\ ls[i] = ls[j] => ls[i] \notin {"EndOfShallows", "Nak", "EndOfRequest"}

\* the chunk a response may open with when its first packet is pkt
UploadOpening(pkt) ==
    IF pkt.type = "Flush" THEN "EndOfShallows"
    ELSE IF pkt.type = "Bytes" /\ HasPrefix(pkt.content, LitACK) THEN "Ack"
    ELSE IF pkt.type = "Bytes" /\ pkt.content = LitNAK THEN "Nak"
    ELSE "none"

\* C2: the chunks UploadResponse produces are in the order Shallow*,
\* Unshallow*, at most one EndOfShallows, Ack*, at most one Nak,
\* PackStreamBytes*, at most one EndOfRequest, and a response that opens with
\* an ACK, a NAK or a flush is accepted: its first packet yields a chunk.
C2_UploadOrdering ==
    kind = "UploadResponse" =>
        /\ UploadOrdered(labels)
        /\ (pkts # <<>> /\ UploadOpening(pkts[1]) # "none") =>
               (labels # <<>> /\ labels[1] = UploadOpening(pkts[1]))

C2_Witness ==
    /\ kind = "UploadResponse"
    /\ phase = 1
    /\ labels = <<"Nak", "PackStreamBytes", "EndOfRequest">>
    /\ chunks[2].PackStream = <<"x">>

\* C3: every Scan of a parser that returned true has consumed exactly one
\* packet and has made one new chunk available: there are as many chunks
\* allocated as Scan calls that returned true, and as many packets consumed.
C3_OneChunkPerPacket ==
    IsParser => /\ Len(chunks) = Len(labels)
                /\ ret = "true" => Len(pkts) = Len(chunks)

\* C4: when a parser has accepted a source without error, the encodings of
\* its chunks, parsed again by the same parser, give the same chunks without
\* panic or error.
C4_RoundTrip ==
    (IsParser /\ phase = 2 /\ ret \in {"false", "panic"}) =>
        (~panicked /\ r.err = NilErr /\ chunks = first)

\* C5: the chunks ReceiveResponse produces are a prefix of one UnpackStatus,
\* any number of RefUpdate, one EndOfResponse; every Scan that returned true
\* produced one of them, so none returns true after EndOfResponse.
C5_ReceiveOrdering ==
    kind = "ReceiveResponse" =>
        /\ Len(chunks) = Len(labels)
        /\ \A i \in 1..Len(labels) :
              /\ i = 1 <=> labels[i] = "UnpackStatus"
              /\ i > 1 => labels[i] \in {"RefUpdate", "EndOfResponse"}
              /\ labels[i] = "EndOfResponse" => i = Len(labels)
        /\ r.state # ReceiveResponseBegin <=> labels # <<>>

C5_Witness ==
    /\ kind = "ReceiveResponse"
    /\ phase = 1
    /\ labels = <<"UnpackStatus", "RefUpdate", "EndOfResponse">>
    /\ chunks[1].UnpackStatus = <<"o">>
    /\ chunks[2].RefName = <<"r">>
    /\ ret = "false"
    /\ r.err = NilErr

\* The state of a Request after the chunks ls, from the state st, by the
\* grammar (Command, Capability*, EndCapabilities, Argument*, EndArguments)*,
\* EndRequest; -1 when ls is not a prefix of it.
RECURSIVE RequestRun(_, _)
RequestRun(ls, st) ==
    IF ls = <<>> THEN st
    ELSE LET l == Head(ls)
             nx == IF st = RequestBegin /\ l = "Command" THEN RequestScanCapabilities
                   ELSE IF st = RequestBegin /\ l = "EndRequest" THEN RequestEnd
                   ELSE IF st = RequestScanCapabilities /\ l = "Capability" THEN RequestScanCapabilities
                   ELSE IF st = RequestScanCapabilities /\ l = "EndCapabilities" THEN RequestScanArguments
                   ELSE IF st = RequestScanArguments /\ l = "Argument" THEN RequestScanArguments
                   ELSE IF st = RequestScanArguments /\ l = "EndArguments" THEN RequestBegin
                   ELSE -1
         IN IF nx = -1 THEN -1 ELSE RequestRun(Tail(ls), nx)

\* C6: the chunks Request produces are a prefix of (Command, Capability*,
\* EndCapabilities, Argument*, EndArguments)* EndRequest, the parser is in the
\* state the grammar is in (Begin after EndArguments, End only by EndRequest
\* from Begin), and every Scan that returned true produced one of them.
C6_RequestOrdering ==
    kind = "Request" =>
        /\ RequestRun(labels, RequestBegin) = r.state
        /\ Len(chunks) = Len(labels)

C6_Witness ==
    /\ kind = "Request"
    /\ phase = 1
    /\ labels = <<"Command", "Capability", "EndCapabilities", "Argument", "EndArguments",
                 "Command", "Capability", "EndCapabilities", "Argument", "EndArguments",
                 "EndRequest">>
    /\ chunks[1].Command = <<"c">>
    /\ chunks[4].Argument = <<"a", "\n">>
    /\ r.state = RequestEnd

\* a Scan has returned false with an error, or the parser is in its End state
Halted ==
    IF IsParser
    THEN (ret = "false" /\ r.err # NilErr) \/ r.state = EndState
    ELSE ret = "false" /\ s.err # NilErr

\* C7: once a Scan has returned false with an error, or the parser has reached
\* End, every later Scan returns false, consumes nothing, and leaves Err(),
\* Chunk() and the state as they were.
C7_HaltIsTerminal ==
    [][(Halted /\ ScanCall) =>
           (ret' = "false" /\ ~panicked' /\ s' = s /\ r' = r /\ pkts' = pkts /\ chunks' = chunks)]_vars

C7_Witness ==
    /\ kind = "ReceiveResponse"
    /\ ret = "false"
    /\ r.err.kind = "SyntaxError"
    /\ r.state = ReceiveResponseScanResult
    /\ s.pos < Len(input)

\* the next token of the source is a frame whose payload begins with "ERR "
ErrFrameNext ==
    /\ ~s.packFileMode
    /\ s.err = NilErr
    /\ Len(Rest(s)) >= 8
    /\ SubSeq(Rest(s), 5, 8) = LitERR
    /\ ParseUint(SubSeq(Rest(s), 1, 4)).ok
    /\ ParseUint(SubSeq(Rest(s), 1, 4)).val \in 8..Len(Rest(s))

\* C8: in the PacketScanner a frame whose payload begins with "ERR " yields no
\* packet: Scan returns false, Err() is the ErrorPacket of the payload bytes
\* after "ERR ", and no later Scan returns true.
C8_RemoteError ==
    [][kind = "PacketScanner" =>
          /\ ErrFrameNext =>
                /\ ret' = "false"
                /\ pkts' = pkts
                /\ s'.curr = s.curr
                /\ s'.err = ErrorPacket(SubSeq(Rest(s), 9, ParseUint(SubSeq(Rest(s), 1, 4)).val))
          /\ s.err.kind = "ErrorPacket" => (ret' = "false" /\ pkts' = pkts /\ s' = s)]_vars

C8_Witness ==
    /\ kind = "PacketScanner"
    /\ ret = "false"
    /\ s.err = ErrorPacket(<<"x", "\n">>)
    /\ pkts = <<FlushPacket>>
    /\ s.pos < Len(input)

\* the Scan call of the step found the PacketScanner at its end without error
CleanEnd ==
    /\ ScanCall
    /\ ~panicked'
    /\ pkts' = pkts
    /\ s'.err = NilErr

\* C9: when the PacketScanner ends without error, Scan of UploadResponse
\* returns false, with Err() nil in the states BeginAcknowledgements and
\* ScanPacks and with the SyntaxError "early EOF" in Begin, ScanShallows,
\* ScanUnshallows and ScanAcknowledgements.
C9_UploadEndOfStream ==
    [][(kind = "UploadResponse" /\ ~UploadResponseStopped(r) /\ CleanEnd) =>
          /\ ret' = "false"
          /\ r'.state = r.state
          /\ r'.curr = r.curr
          /\ r'.err = IF r.state \in {UploadResponseBeginAcknowledgements, UploadResponseScanPacks}
                      THEN NilErr ELSE EarlyEOF]_vars

C9_Witness ==
    /\ kind = "UploadResponse"
    /\ phase = 1
    /\ input = <<>>
    /\ srcErr = "EOF"
    /\ ret = "false"
    /\ r.err = EarlyEOF

\* C10: when the PacketScanner ends without error, Scan of ReceiveResponse and
\* of Request returns false, with Err() nil in the state Begin and with the
\* SyntaxError "early EOF" in the other states before End; in Begin
\* ReceiveResponse has produced no chunk and Request has read complete
\* requests only.
C10_EndOfStream ==
    [][/\ (kind = "ReceiveResponse" /\ ~ReceiveResponseStopped(r) /\ CleanEnd) =>
             /\ ret' = "false"
             /\ r'.state = r.state
             /\ r'.err = IF r.state = ReceiveResponseBegin THEN NilErr ELSE EarlyEOF
             /\ r.state = ReceiveResponseBegin => labels = <<>>
       /\ (kind = "Request" /\ ~RequestStopped(r) /\ CleanEnd) =>
             /\ ret' = "false"
             /\ r'.state = r.state
             /\ r'.err = IF r.state = RequestBegin THEN NilErr ELSE EarlyEOF
             /\ r.state = RequestBegin =>
                   (labels = <<>> \/ labels[Len(labels)] = "EndArguments")]_vars

C10_Witness ==
    /\ kind = "Request"
    /\ phase = 1
    /\ labels = <<"Command", "Capability", "EndCapabilities", "Argument", "EndArguments">>
    /\ ret = "false"
    /\ r.err = NilErr
    /\ r.state = RequestBegin

\* C11: BytesPacket and ErrorPacket never return a malformed header: the call
\* panics, or the first four bytes returned are hexadecimal digits whose value
\* is the length of the bytes returned; BytesPacket panics exactly on a
\* content of more than 65531 bytes, ErrorPacket on every message whose frame
\* is longer than 65535 bytes.
C11_HeaderIsFrameLength ==
    (kind = "Encoder" /\ enc.done) =>
        /\ ~enc.panic => /\ Len(enc.header) = 4
                         /\ ParseUint(enc.header).ok
                         /\ ParseUint(enc.header).val = enc.total
        /\ enc.type = "Bytes" => (enc.panic <=> enc.len > 65531)
        /\ enc.type = "Error" => (enc.panic <=> 4 + 4 + enc.len > 65535)

\* the contents of the packets ps, one after the other
RECURSIVE Contents(_)
Contents(ps) == IF ps = <<>> THEN <<>> ELSE Head(ps).content \o Contents(Tail(ps))

\* the index of the pack file indicator among the packets returned, 0 when
\* there is none
IndicatorAt ==
    IF \E i \in 1..Len(pkts) : pkts[i] = PackFileIndicatorPacket
    THEN CHOOSE i \in 1..Len(pkts) :
            pkts[i] = PackFileIndicatorPacket /\ \A j \in 1..(i - 1) : pkts[j] # PackFileIndicatorPacket
    ELSE 0

\* C12: the PacketScanner returns no PackFilePacket before a
\* PackFileIndicatorPacket; after the indicator it is in raw mode for good and
\* every packet is a PackFilePacket, whose contents are the bytes of the source
\* behind "PACK" as they are; when the source is exhausted in raw mode Scan
\* returns false and Err() is nil.
C12_RawModeIsOneWay ==
    kind \in Kinds =>
        /\ s.packFileMode <=> IndicatorAt # 0
        /\ \A i \in 1..Len(pkts) : pkts[i].type = "PackFile" <=> (IndicatorAt # 0 /\ i > IndicatorAt)
        /\ IndicatorAt # 0 =>
              LET raw == Contents(SubSeq(pkts, IndicatorAt + 1, Len(pkts))) IN
              /\ raw = SubSeq(input, s.pos - Len(raw) + 1, s.pos)
              /\ SubSeq(input, s.pos - Len(raw) - 3, s.pos - Len(raw)) = LitPACK
              /\ s.err = NilErr
              /\ (kind = "PacketScanner" /\ ret = "false" /\ srcErr = "EOF") => s.pos = Len(input)

C12_Witness ==
    /\ kind = "PacketScanner"
    /\ srcErr = "EOF"
    /\ pkts = <<FlushPacket, PackFileIndicatorPacket, PackFilePacket(<<"0">>),
                PackFilePacket(<<"0", "0", "9", "E", "R", "R", " ", "x">>)>>
    /\ ret = "false"
    /\ s.err = NilErr

\* the PacketScanner is in framed mode, without error, and the source has at
\* least four more bytes, which are not "PACK"
HeaderNext ==
    /\ kind = "PacketScanner"
    /\ ~panicked
    /\ ~s.packFileMode
    /\ s.err = NilErr
    /\ Len(Rest(s)) >= 4
    /\ ~HasPrefix(Rest(s), LitPACK)

NextHeader == SubSeq(Rest(s), 1, 4)

\* C13: a header of four hexadecimal digits of value n gives: for n = 0 a
\* FlushPacket and for n = 1 a DelimPacket, of 4 bytes each; for n = 4 the
\* SyntaxError "unknown special packet" and no packet; for n >= 5, when n
\* bytes are there and the payload does not begin with "ERR ", one BytesPacket
\* of the n - 4 bytes behind the header, the next token beginning n bytes on.
C13_FramedClassification ==
    [][(HeaderNext /\ ParseUint(NextHeader).ok) =>
          LET n == ParseUint(NextHeader).val IN
          /\ n = 0 => (ret' = "true" /\ s'.curr = FlushPacket /\ s'.pos = s.pos + 4)
          /\ n = 1 => (ret' = "true" /\ s'.curr = DelimPacket /\ s'.pos = s.pos + 4)
          /\ n = 4 => /\ ret' = "false"
                      /\ pkts' = pkts
                      /\ s'.err = SyntaxError("unknown special packet: ", NextHeader)
          /\ (n >= 5 /\ Len(Rest(s)) >= n /\ ~HasPrefix(SubSeq(Rest(s), 5, n), LitERR)) =>
                /\ ret' = "true"
                /\ s'.curr = BytesPacket(SubSeq(Rest(s), 5, n))
                /\ pkts' = Append(pkts, BytesPacket(SubSeq(Rest(s), 5, n)))
                /\ s'.pos = s.pos + n]_vars

\* C14: in framed mode four bytes that are neither "PACK" nor hexadecimal
\* digits make Scan return false with a SyntaxError, and give no packet.
C14_BadHeaderIsSyntaxError ==
    [][(HeaderNext /\ ~ParseUint(NextHeader).ok) =>
          (ret' = "false" /\ pkts' = pkts /\ s'.err.kind = "SyntaxError")]_vars

\* the PacketScanner gave the parser a packet in this step
Delivered == Len(pkts') = Len(pkts) + 1
DeliveredPacket == pkts'[Len(pkts')]

\* a packet that may open an upload response
UploadOpener(p) ==
    \/ p.type = "Flush"
    \/ /\ p.type = "Bytes"
       /\ \/ HasPrefix(p.content, LitShallow)
          \/ HasPrefix(p.content, LitUnshallow)
          \/ HasPrefix(p.content, LitACK)
          \/ p.content = LitNAK

\* C15: when the first packet of an UploadResponse is neither a Bytes packet
\* starting with "shallow ", "unshallow " or "ACK ", nor the Bytes packet
\* "NAK\n", nor a Flush, Scan returns false with a SyntaxError, produces no
\* chunk and stays in Begin.
C15_UploadMustOpen ==
    [][(kind = "UploadResponse" /\ r.state = UploadResponseBegin /\ r.err = NilErr
            /\ Delivered /\ ~UploadOpener(DeliveredPacket)) =>
          /\ ret' = "false"
          /\ r'.err.kind = "SyntaxError"
          /\ r'.curr = r.curr
          /\ r'.state = UploadResponseBegin
          /\ chunks' = chunks
          /\ labels' = labels]_vars

\* arbitrary Bytes, a Delim or a PackIndicator has been rejected as the first
\* packet
C15_Witness ==
    /\ kind = "UploadResponse"
    /\ Len(pkts) = 1
    /\ pkts[1] \in {BytesPacket(<<"x">>), DelimPacket, PackFileIndicatorPacket}
    /\ ret = "false"
    /\ r.err.kind = "SyntaxError"
    /\ chunks = <<>>

\* the section a chunk label belongs to, as the least state that allocates it
LabelSection(l) ==
    IF l = "Shallow" THEN UploadResponseScanShallows
    ELSE IF l \in {"Unshallow", "EndOfShallows"} THEN UploadResponseScanUnshallows
    ELSE IF l \in {"Ack", "Nak"} THEN UploadResponseScanAcknowledgements
    ELSE UploadResponseScanPacks

\* C16: over every Scan call of an UploadResponse the state never decreases in
\* the order Begin < ScanShallows < ScanUnshallows < BeginAcknowledgements <
\* ScanAcknowledgements < ScanPacks < End, and a packet of a section the
\* parser has passed is not parsed as a chunk of that section.
C16_UploadStateForward ==
    [][(kind = "UploadResponse" /\ ScanCall) =>
          /\ r'.state >= r.state
          /\ Len(labels') > Len(labels) => LabelSection(labels'[Len(labels')]) >= r.state]_vars

\* "shallow a" after an ACK and "unshallow a" after it were taken as pack
\* stream bytes, the state staying in ScanPacks
C16_Witness ==
    /\ kind = "UploadResponse"
    /\ labels = <<"Ack", "PackStreamBytes", "PackStreamBytes">>
    /\ pkts[2] = BytesPacket(LitShallow \o <<"a", "\n">>)
    /\ pkts[3] = BytesPacket(LitUnshallow \o <<"a", "\n">>)
    /\ r.state = UploadResponseScanPacks

\* the Bytes packet p is matched by the section of state st or by a later one
\* ahead of the pack section
UploadMatches(st, p) ==
    /\ p.type = "Bytes"
    /\ \/ st <= UploadResponseScanShallows /\ HasPrefix(p.content, LitShallow)
       \/ st <= UploadResponseScanUnshallows /\ HasPrefix(p.content, LitUnshallow)
       \/ st <= UploadResponseScanAcknowledgements
            /\ (HasPrefix(p.content, LitACK) \/ p.content = LitNAK)

\* C17: once an UploadResponse has left Begin, a packet is a fatal SyntaxError
\* exactly when it is a Delim; a Bytes packet that no section ahead of the
\* pack section matches, and a PackChunk, become the PackStream of a new
\* chunk, content unchanged, in state ScanPacks; a Flush in
\* BeginAcknowledgements, ScanAcknowledgements or ScanPacks gives the
\* EndOfRequest chunk and the End state.
C17_UploadFallback ==
    [][(kind = "UploadResponse" /\ r.err = NilErr /\ Delivered
            /\ r.state \notin {UploadResponseBegin, UploadResponseEnd}) =>
          LET p == DeliveredPacket IN
          /\ r'.err # NilErr <=> p.type = "Delim"
          /\ p.type = "Delim" =>
                (ret' = "false" /\ r'.err.kind = "SyntaxError" /\ chunks' = chunks)
          /\ (p.type = "PackFile" \/ (p.type = "Bytes" /\ ~UploadMatches(r.state, p))) =>
                /\ ret' = "true"
                /\ labels' = Append(labels, "PackStreamBytes")
                /\ r'.curr = [UploadResponseChunk EXCEPT !.PackStream = p.content]
                /\ r'.state = UploadResponseScanPacks
          /\ (p.type = "Flush" /\ r.state >= UploadResponseBeginAcknowledgements) =>
                /\ ret' = "true"
                /\ r'.curr = [UploadResponseChunk EXCEPT !.EndOfRequest = TRUE]
                /\ r'.state = UploadResponseEnd]_vars

\* after a shallow line, the bytes "x" were taken as pack stream and the Delim
\* that followed was rejected
C17_Witness ==
    /\ kind = "UploadResponse"
    /\ pkts = <<BytesPacket(LitShallow \o <<"a", "\n">>), BytesPacket(<<"x">>), DelimPacket>>
    /\ labels = <<"Shallow", "PackStreamBytes">>
    /\ chunks[2].PackStream = <<"x">>
    /\ ret = "false"
    /\ r.err.kind = "SyntaxError"

\* b holds no space
NoSpace(b) == \A i \in 1..Len(b) : b[i] # " "

\* C18: in state ScanResult of a ReceiveResponse, a Bytes packet starting
\* with "ng " that has, after one trailing newline is stripped, no second
\* space makes Scan return false with a SyntaxError, state and chunk
\* unchanged; otherwise it gives the ref update "ng" of the name between the
\* first two spaces and of the message after the second, further spaces
\* kept; a Bytes packet starting with "ok " gives the ref update "ok" of all
\* that follows the first space, without a message; every other packet but
\* Flush is a SyntaxError.
C18_ReceiveRefUpdate ==
    [][(kind = "ReceiveResponse" /\ r.err = NilErr /\ Delivered
            /\ r.state = ReceiveResponseScanResult) =>
          LET p == DeliveredPacket
              str == TrimSuffix(p.content, LitNL)
              c == r'.curr
          IN IF p.type = "Bytes" /\ HasPrefix(p.content, LitNg)
             THEN IF NoSpace(SubSeq(str, 4, Len(str)))
                  THEN /\ ret' = "false"
                       /\ r'.err.kind = "SyntaxError"
                       /\ r'.state = r.state
                       /\ r'.curr = r.curr
                  ELSE /\ ret' = "true"
                       /\ r'.err = NilErr
                       /\ r'.state = ReceiveResponseScanResult
                       /\ c.RefUpdateStatus = <<"n", "g">>
                       /\ NoSpace(c.RefName)
                       /\ str = LitNg \o c.RefName \o LitSP \o c.RefUpdateFailMessage
                       /\ c.UnpackStatus = <<>> /\ ~c.EndOfResponse
             ELSE IF p.type = "Bytes" /\ HasPrefix(p.content, LitOk)
             THEN /\ ret' = "true"
                  /\ r'.err = NilErr
                  /\ r'.state = ReceiveResponseScanResult
                  /\ c.RefUpdateStatus = <<"o", "k">>
                  /\ str = LitOk \o c.RefName
                  /\ c.RefUpdateFailMessage = <<>>
                  /\ c.UnpackStatus = <<>> /\ ~c.EndOfResponse
             ELSE IF p.type = "Flush"
             THEN ret' = "true" /\ r'.err = NilErr
             ELSE /\ ret' = "false"
                  /\ r'.err.kind = "SyntaxError"
                  /\ r'.state = r.state
                  /\ r'.curr = r.curr]_vars

\* "ng r m n" gave the name "r" and the message "m n", and the "ng r" after it
\* was rejected, the chunk staying
C18_Witness ==
    /\ kind = "ReceiveResponse"
    /\ Len(pkts) = 3
    /\ Len(chunks) = 2
    /\ chunks[2].RefUpdateStatus = <<"n", "g">>
    /\ chunks[2].RefName = <<"r">>
    /\ chunks[2].RefUpdateFailMessage = <<"m", " ", "n">>
    /\ pkts[3] = BytesPacket(<<"n", "g", " ", "r", "\n">>)
    /\ ret = "false"
    /\ r.err.kind = "SyntaxError"
    /\ r.state = ReceiveResponseScanResult
    /\ r.curr = chunks[2]

\* C19: every PacketScanner.Scan call completes, returning true with a packet
\* or false: no call aborts with an out-of-range access, whatever the bytes
\* of the source, a header declaring 2, 3 or 5 to 7 included.
C19_TokenizerTotal == kind = "PacketScanner" => (~panicked /\ ret # "panic")

BeginState == IF kind = "Request" THEN RequestBegin ELSE ReceiveResponseBegin

\* the source ends inside a frame: fewer than 4 bytes of a header are left, or
\* fewer bytes than the header declares
IncompleteFrame ==
    /\ ~s.packFileMode
    /\ s.err = NilErr
    /\ srcErr = "EOF"
    /\ LET d == Rest(s) IN
       \/ 0 < Len(d) /\ Len(d) < 4
       \/ /\ Len(d) >= 4
          /\ ~HasPrefix(d, LitPACK)
          /\ ParseUint(SubSeq(d, 1, 4)).ok
          /\ ParseUint(SubSeq(d, 1, 4)).val \notin {0, 1}
          /\ Len(d) < ParseUint(SubSeq(d, 1, 4)).val

\* C20: when the source is exhausted inside a frame, the Scan call gives no
\* packet for the partial frame and returns false, the PacketScanner's Err()
\* staying nil; a ReceiveResponse or Request then ends without an error when
\* it is in Begin and with "early EOF" in every other state but End.
C20_TruncationIsSilent ==
    [][(IncompleteFrame /\ ScanCall /\ ~panicked
            /\ (IsParser => (r.err = NilErr /\ r.state # EndState))) =>
          /\ ret' = "false"
          /\ pkts' = pkts
          /\ chunks' = chunks
          /\ s'.err = NilErr
          /\ kind \in {"ReceiveResponse", "Request"} =>
                /\ r'.state = r.state
                /\ r'.err = IF r.state = BeginState THEN NilErr ELSE EarlyEOF]_vars

\* a ReceiveResponse whose source ends inside the frame after the unpack line
\* has reported "early EOF" while its PacketScanner has no error
C20_Witness ==
    /\ kind = "ReceiveResponse"
    /\ input = WireUnpack \o WireTruncated
    /\ srcErr = "EOF"
    /\ Len(pkts) = 1
    /\ ret = "false"
    /\ s.err = NilErr
    /\ r.err = EarlyEOF

\* C21: whenever Scan of a parser has returned true, Chunk() is not nil, and
\* so is every chunk the caller has observed; an UploadResponse is in Begin
\* exactly when no Scan has returned true yet, so that the pack file
\* indicator, which assigns no chunk, is accepted only after a chunk exists.
C21_ChunkNeverNil ==
    IsParser =>
        /\ ret = "true" => r.curr # NilChunk
        /\ \A i \in 1..Len(chunks) : chunks[i] # NilChunk
        /\ (kind = "UploadResponse" /\ ~panicked) =>
              (r.state = UploadResponseBegin <=> chunks = <<>>)

\* the pack file indicator was accepted after a NAK: Scan returned true and
\* Chunk() is still the Nak chunk
C21_Witness ==
    /\ kind = "UploadResponse"
    /\ pkts = <<BytesPacket(LitNAK), PackFileIndicatorPacket>>
    /\ ret = "true"
    /\ Len(chunks) = 2
    /\ r.curr = [UploadResponseChunk EXCEPT !.Nak = TRUE]
====
